---- MODULE Spec2Model ----
(***************************************************************************)
(* Checkpoint / rollback engine and version-file manager of DuggerGitTools *)
(* (dgt/core/universal_rollback.py, dgt/core/universal_versioning.py).     *)
(*                                                                         *)
(* File contents are sequences of tokens.  A "ver" token is one span of    *)
(* text matched by a VersionFormat pattern such as                         *)
(*     version\s*=\s*"([^"]+)"                                             *)
(* with `pre` the spelling of the text around the captured group ("canon"  *)
(* is the spelling the replacement template writes, "alt" any other        *)
(* spelling the \s* of the pattern admits) and `v` the captured group.     *)
(* A "txt" token is text the pattern does not match.                       *)
(***************************************************************************)
EXTENDS Integers, Sequences, FiniteSets, TLC

VARIABLES
    version_formats,  \* schema.version_formats, in schema order
    files,            \* working tree: path -> content, or NoFile
    branch,           \* git: the checked-out branch
    tip,              \* git: branch -> commit the branch points at
    commits,          \* git: commit (1..Len) -> tree (path -> content or NoFile)
    now,              \* wall clock, in ticks of 1/TicksPerSec second
    ckdir,            \* .dgt/rollback: checkpoint id -> checkpoint document
    pc,               \* RollbackContext: "created", "body", "exited", "enter_failed"
    operation_id,     \* RollbackContext.operation_id
    checkpoint_id,    \* RollbackContext.checkpoint_id (None until __enter__)
    should_rollback,  \* RollbackContext.should_rollback
    exc_val,          \* the exception the scope body raised ("none": normal exit)
    propagated,       \* what the caller of the with-statement sees after __exit__
    exit_calls,       \* ids __exit__ passed to rollback_to_checkpoint
    last_rollback,    \* trace of the rollback_to_checkpoint call the latest step made
    last_call,        \* name and outcome of the RollbackManager call the latest step made
    vm,               \* the version-manager call the latest step made, and its result
    wf                \* DGTOrchestrator.run_commit_workflow: its position and locals

vars == <<version_formats, files, branch, tip, commits, now, ckdir, pc, operation_id,
          checkpoint_id, should_rollback, exc_val, propagated, exit_calls,
          last_rollback, last_call, vm, wf>>

git   == <<branch, tip, commits>>
ctx   == <<pc, operation_id, checkpoint_id, should_rollback, exc_val,
           propagated, exit_calls>>

-----------------------------------------------------------------------------
(* Bounds *)

MaxTime      == 2     \* the clock stops ticking here
MaxCommits   == 2     \* commits the repository may hold
MaxComponent == 1     \* bump_version is not taken beyond this component value
MaxIOFail    == 1     \* paths whose read or write may raise within one call
MaxDocs      == 2     \* documents the checkpoint directory may hold
MaxVmCalls   == 2     \* version-manager calls made in a row
BigComponent == 2147483640  \* a version component close to 2^31
MaxStaged    == 1     \* files git reports as staged
MaxChecks    == 2     \* results one pre-flight run returns

(* The clock of _generate_checkpoint_id has whole-second resolution, the  *)
(* clock of _get_timestamp microsecond resolution: a second is more than  *)
(* one tick of the model's clock.                                         *)
TicksPerSec  == 2

-----------------------------------------------------------------------------
(* Values *)

NoVer   == [n |-> <<>>, suf |-> ""]
NoFile  == <<[k |-> "absent", pre |-> "", v |-> NoVer]>>

SemVer(a, b, c) == [n |-> <<a, b, c>>, suf |-> ""]
(* the literal text CURRENT_VERSION that _rollback_version_state formats  *)
(* into the replacement template                                          *)
CurrentVersionLit == [n |-> <<>>, suf |-> "CURRENT_VERSION"]

Ver(pre, v) == [k |-> "ver", pre |-> pre, v |-> v]
Txt         == [k |-> "txt", pre |-> "", v |-> NoVer]

CargoToml   == "Cargo.toml"
PackageJson == "package.json"
DuggerYaml  == "dugger.yaml"

(* a VersionFormat: its file and whether it has a replacement template   *)
VersionFormat(p, template) == [file_path |-> p, replacement |-> template]

(* the schemas a project is configured with: the version file's format   *)
(* with a replacement template, or without one                            *)
Schemas ==
    { <<VersionFormat(CargoToml, TRUE)>>, <<VersionFormat(CargoToml, FALSE)>> }

VersionPaths == {version_formats[i].file_path : i \in DOMAIN version_formats}
config_files == {DuggerYaml}
Paths        == {CargoToml, PackageJson, DuggerYaml}

Branches   == {"main", "dev"}
Ops        == {"commit", "release"}
Exceptions == {"ValueError", "RuntimeError"}
BumpTypes  == {"major", "minor", "patch"}

(* contents a scope body may write into a version file *)
WriteContents == { <<Txt>> }

(* contents of the version files when the tool is first run: a manifest    *)
(* with one version line, or one whose dependency table holds a second     *)
(* line the pattern matches                                                *)
InitContents ==
    { <<Txt, Ver("canon", SemVer(1, 0, 0))>>,
      <<Ver("canon", SemVer(1, 0, 0)), Ver("alt", SemVer(0, 1, 0))>> }

SyncTargets == {SemVer(0, 1, 1)}

(* run_commit_workflow before it is called: no step taken, nothing       *)
(* staged or checked, no git or version-manager call made, no result      *)
NoWorkflow ==
    [step |-> "idle", auto_add |-> FALSE, auto_bump |-> FALSE, auto_push |-> FALSE,
     steps |-> <<>>, staged_found |-> 0, staged |-> 0, checks |-> <<>>,
     calls |-> <<>>, raised |-> FALSE, success |-> FALSE, message |-> "",
     commit_hash |-> FALSE]

-----------------------------------------------------------------------------
(* Pattern matching and substitution on file contents *)

Min(S) == CHOOSE x \in S : \A y \in S : x <= y

(* schema lookup: next(vf for vf in version_formats if vf.file_path == p) *)
HasFormat(p) == \E i \in DOMAIN version_formats : version_formats[i].file_path = p
FormatOf(p)  ==
    version_formats[Min({i \in DOMAIN version_formats :
                            version_formats[i].file_path = p})]

(* indices of the spans re.finditer(pattern, content, re.MULTILINE) yields *)
MatchIdx(content) == {i \in DOMAIN content : content[i].k = "ver"}
HasMatch(content) == MatchIdx(content) /= {}
(* re.search: the leftmost match *)
FirstMatch(content) == content[Min(MatchIdx(content))]

(* file_path.exists(), and a file that exists and whose read_text and      *)
(* write_text do not raise in this call (bad: the paths on which they do)  *)
Exists(fs, p)        == fs[p] /= NoFile
Readable(fs, bad, p) == Exists(fs, p) /\ p \notin bad

IOFailures(S) == {bad \in SUBSET S : Cardinality(bad) <= MaxIOFail}

(* a bug: the substitution's result is dropped *)
SubTemplate_KeepsContent(content, v) == content

(* re.sub(pattern, replacement.format(new_version=v), content): every     *)
(* match becomes the template's text                                      *)
SubTemplate(content, v) ==
    [i \in DOMAIN content |->
        IF content[i].k = "ver" THEN Ver("canon", v) ELSE content[i]]

(* re.sub(pattern, match.group(0).replace(match.group(1), v), content)    *)
(* with match the leftmost match: every match becomes the FIRST match's   *)
(* text with its version replaced                                         *)
SubFirstGroup(content, v) ==
    [i \in DOMAIN content |->
        IF content[i].k = "ver" THEN Ver(FirstMatch(content).pre, v)
                                ELSE content[i]]

(* re.sub(pattern, lambda m: m.group(0).replace(m.group(1), v), content): *)
(* every match keeps its own text around the version                      *)
SubEachGroup(content, v) ==
    [i \in DOMAIN content |->
        IF content[i].k = "ver" THEN Ver(content[i].pre, v) ELSE content[i]]

(* content.replace(replacement.format(new_version="CURRENT_VERSION"),     *)
(*                 replacement.format(new_version=v)): a plain string     *)
(* replacement of the template's text holding the literal CURRENT_VERSION *)
ReplaceLiteral(content, v) ==
    [i \in DOMAIN content |->
        IF content[i] = Ver("canon", CurrentVersionLit)
        THEN Ver("canon", v) ELSE content[i]]

-----------------------------------------------------------------------------
(* UniversalVersionManager *)

(* get_current_versions: path -> captured version, for the formats whose  *)
(* file exists, can be read and matches                                   *)
get_current_versions(fs, bad) ==
    [p \in {q \in VersionPaths : Readable(fs, bad, q) /\ HasMatch(fs[q])}
        |-> FirstMatch(fs[p]).v]

(* a bug: the last entry is taken as the base *)
FirstVersion_Last(cur) ==
    cur[version_formats[CHOOSE i \in DOMAIN version_formats :
            /\ version_formats[i].file_path \in DOMAIN cur
            /\ \A j \in DOMAIN version_formats :
                  version_formats[j].file_path \in DOMAIN cur => j <= i].file_path]

(* list(current_versions.values())[0]: dicts keep insertion order, which  *)
(* is schema order                                                        *)
FirstVersion(cur) ==
    cur[version_formats[Min({i \in DOMAIN version_formats :
                                version_formats[i].file_path \in DOMAIN cur})].file_path]

(* a bug: the components are kept in 16 bits *)
_calculate_new_version_Wraps(v, bump_type) ==
    IF Len(v.n) < 3 THEN v
    ELSE CASE bump_type = "major" -> SemVer((v.n[1] + 1) % 65536, 0, 0)
           [] bump_type = "minor" -> SemVer(v.n[1], (v.n[2] + 1) % 65536, 0)
           [] bump_type = "patch" -> SemVer(v.n[1], v.n[2], (v.n[3] + 1) % 65536)
           [] OTHER               -> v

(* re.match(r"(\d+)\.(\d+)\.(\d+)", v) needs three leading numeric         *)
(* components and ignores what follows them                               *)
_calculate_new_version(v, bump_type) ==
    IF Len(v.n) < 3 THEN v
    ELSE CASE bump_type = "major" -> SemVer(v.n[1] + 1, 0, 0)
           [] bump_type = "minor" -> SemVer(v.n[1], v.n[2] + 1, 0)
           [] bump_type = "patch" -> SemVer(v.n[1], v.n[2], v.n[3] + 1)
           [] OTHER               -> v

(* a bug: the check is the unanchored one of _calculate_new_version *)
_is_valid_semver_Unanchored(v) == Len(v.n) >= 3

(* re.match(r"^\d+\.\d+\.\d+$", v): `$` also matches just before a        *)
(* newline that ends the string                                           *)
_is_valid_semver(v) == Len(v.n) = 3 /\ v.suf \in {"", "\n"}

(* the per-file body of bump_version's loop: the content the file holds   *)
(* afterwards                                                             *)
BumpFile(fs, bad, p, new) ==
    IF Readable(fs, bad, p) /\ HasMatch(fs[p])
    THEN IF FormatOf(p).replacement THEN SubTemplate(fs[p], new)
                                    ELSE SubFirstGroup(fs[p], new)
    ELSE fs[p]

(* the per-file body of sync_versions' loop *)
SyncFile(fs, bad, p, target) ==
    IF ~Readable(fs, bad, p) THEN fs[p]
    ELSE IF FormatOf(p).replacement THEN SubTemplate(fs[p], target)
    ELSE IF HasMatch(fs[p]) THEN SubFirstGroup(fs[p], target)
    ELSE fs[p]

WithinBound(v) == \A i \in DOMAIN v.n : v.n[i] <= MaxComponent

bump_version(bump_type, bad) ==
    LET cur == get_current_versions(files, bad)
        new == _calculate_new_version(FirstVersion(cur), bump_type)
    IN  /\ DOMAIN cur /= {}
        /\ files' = [p \in Paths |->
                        IF p \in VersionPaths THEN BumpFile(files, bad, p, new)
                                              ELSE files[p]]

sync_versions(target, bad) ==
    /\ _is_valid_semver(target)
    /\ files' = [p \in Paths |->
                    IF p \in VersionPaths THEN SyncFile(files, bad, p, target)
                                          ELSE files[p]]

-----------------------------------------------------------------------------
(* Git working tree, as far as `git reset --hard` and `git checkout` go *)

HeadCommit == tip[branch]

(* git reset --hard <target>: tracked files take the target tree's        *)
(* content, files tracked in HEAD but absent from the target are removed, *)
(* untracked files stay                                                   *)
ResetHard(fs, curTree, targetTree) ==
    [p \in Paths |->
        IF targetTree[p] /= NoFile THEN targetTree[p]
        ELSE IF curTree[p] /= NoFile THEN NoFile
        ELSE fs[p]]

(* git checkout <branch> refuses to overwrite local changes *)
CheckoutClean(fs, fromTree, toTree) ==
    \A p \in Paths : fromTree[p] /= toTree[p] => fs[p] = fromTree[p]

CheckoutTree(fs, fromTree, toTree) ==
    [p \in Paths |-> IF fromTree[p] = toTree[p] THEN fs[p] ELSE toTree[p]]

-----------------------------------------------------------------------------
(* RollbackManager: checkpoint documents *)

NoneId == <<"None", 0>>
EmptyMap == [p \in {} |-> NoFile]

(* hashlib.md5(f"{operation_id}:{int(time.time())}")[:12]: a function of  *)
(* the operation id and the whole second                                  *)
_generate_checkpoint_id(op, t) == <<op, t \div TicksPerSec>>

AllIds == {_generate_checkpoint_id(op, t) : op \in Ops, t \in 0..MaxTime}

(* the files create_checkpoint reads: the version files and the known    *)
(* config files that exist                                                *)
CapturedPaths == {p \in VersionPaths \cup config_files : Exists(files, p)}

_capture_file_snapshots(fs, bad) ==
    [p \in {q \in VersionPaths \cup config_files : Readable(fs, bad, q)} |-> fs[p]]

_capture_version_state(fs, bad) == get_current_versions(fs, bad)

CheckpointData(op, t, fs, bad) ==
    [ parses         |-> TRUE,
      checkpoint_id  |-> _generate_checkpoint_id(op, t),
      operation_id   |-> op,
      timestamp      |-> t,
      git_state      |-> [commit_hash |-> HeadCommit, branch |-> branch],
      file_snapshots |-> _capture_file_snapshots(fs, bad),
      version_state  |-> _capture_version_state(fs, bad) ]

(* what json.dump leaves behind when it raises part-way: a file that      *)
(* json.load rejects                                                      *)
TruncatedDoc ==
    [ parses         |-> FALSE,
      checkpoint_id  |-> NoneId,
      operation_id   |-> "",
      timestamp      |-> 0,
      git_state      |-> [commit_hash |-> 0, branch |-> ""],
      file_snapshots |-> EmptyMap,
      version_state  |-> EmptyMap ]

WriteOutcomes == {"ok", "open_fails", "dump_fails"}

(* the checkpoint directory after `with checkpoint_file.open("w")` and    *)
(* json.dump                                                              *)
WriteDocument(dir, id, doc, outcome) ==
    CASE outcome = "ok"         -> (id :> doc) @@ dir
      [] outcome = "dump_fails" -> (id :> TruncatedDoc) @@ dir
      [] OTHER                  -> dir

(* create_checkpoint: the directory afterwards; it returns the id when    *)
(* outcome = "ok" and raises otherwise                                    *)
create_checkpoint(op, bad, outcome) ==
    WriteDocument(ckdir, _generate_checkpoint_id(op, now),
                  CheckpointData(op, now, files, bad), outcome)

(* the read failures one call of create_checkpoint can meet (they leave  *)
(* no trace when the document is not written)                             *)
ReadFailures(outcome) ==
    IF outcome = "ok" THEN IOFailures(CapturedPaths) ELSE {{}}

(* room in the model's checkpoint directory *)
HasRoom(op) ==
    \/ _generate_checkpoint_id(op, now) \in DOMAIN ckdir
    \/ Cardinality(DOMAIN ckdir) < MaxDocs

(* a bug: the except clause around json.load is missing its `continue` *)
Parseable_WithUnreadable(dir) == DOMAIN dir

(* the documents json.load accepts *)
Parseable(dir) == {id \in DOMAIN dir : dir[id].parses}

(* rollback_dir.glob("*.json"): the directory's own order, the same on    *)
(* every listing of an unchanged directory                                *)
RECURSIVE GlobOrder(_)
GlobOrder(S) ==
    IF S = {} THEN <<>>
    ELSE LET x == CHOOSE y \in S : TRUE IN <<x>> \o GlobOrder(S \ {x})

(* list.sort(key=timestamp, reverse=True): stable, greatest first *)
RECURSIVE SortNewestFirst(_, _)
SortNewestFirst(dir, seq) ==
    IF seq = <<>> THEN <<>>
    ELSE LET best == Min({i \in DOMAIN seq :
                            \A j \in DOMAIN seq :
                                dir[seq[j]].timestamp <= dir[seq[i]].timestamp})
             rest == [j \in 1..(Len(seq) - 1) |->
                        IF j < best THEN seq[j] ELSE seq[j + 1]]
         IN  <<seq[best]>> \o SortNewestFirst(dir, rest)

Reverse(seq) == [i \in DOMAIN seq |-> seq[Len(seq) + 1 - i]]

(* a bug: reverse=True is forgotten *)
list_checkpoints_OldestFirst(dir) ==
    Reverse(SortNewestFirst(dir, GlobOrder(Parseable(dir))))

(* list_checkpoints: the ids of the summaries, newest first; documents    *)
(* that do not parse are skipped                                          *)
list_checkpoints(dir) == SortNewestFirst(dir, GlobOrder(Parseable(dir)))

_get_latest_checkpoint(dir) ==
    IF list_checkpoints(dir) = <<>> THEN NoneId ELSE list_checkpoints(dir)[1]

-----------------------------------------------------------------------------
(* RollbackManager: restoration *)

(* a bug: the early return for an unchanged commit hash is missing *)
_rollback_git_state_AlwaysResets(git_state, fs, resetOk, checkoutOk) ==
    [ok     |-> TRUE,
     files  |-> ResetHard(fs, commits[HeadCommit], commits[git_state.commit_hash]),
     branch |-> branch,
     tip    |-> [tip EXCEPT ![branch] = git_state.commit_hash],
     cmds   |-> << <<"reset", TRUE>> >>]

(* _rollback_git_state.  _run_command(check=True) raises on a failing git *)
(* command and the except clause turns that into False.  cmds: the git    *)
(* commands run after the two rev-parse calls, each with its success.     *)
_rollback_git_state(git_state, fs, resetOk, checkoutOk) ==
    LET cur    == HeadCommit
        target == git_state.commit_hash
        fs1    == ResetHard(fs, commits[cur], commits[target])
        tip1   == [tip EXCEPT ![branch] = target]
        toTree == commits[tip1[git_state.branch]]
    IN  IF cur = target
        THEN [ok |-> TRUE, files |-> fs, branch |-> branch, tip |-> tip,
              cmds |-> <<>>]
        ELSE IF ~resetOk
        THEN [ok |-> FALSE, files |-> fs, branch |-> branch, tip |-> tip,
              cmds |-> << <<"reset", FALSE>> >>]
        ELSE IF branch = git_state.branch
        THEN [ok |-> TRUE, files |-> fs1, branch |-> branch, tip |-> tip1,
              cmds |-> << <<"reset", TRUE>> >>]
        ELSE IF checkoutOk /\ CheckoutClean(fs1, commits[target], toTree)
        THEN [ok |-> TRUE,
              files |-> CheckoutTree(fs1, commits[target], toTree),
              branch |-> git_state.branch, tip |-> tip1,
              cmds |-> << <<"reset", TRUE>>, <<"checkout", TRUE>> >>]
        ELSE [ok |-> FALSE, files |-> fs1, branch |-> branch, tip |-> tip1,
              cmds |-> << <<"reset", TRUE>>, <<"checkout", FALSE>> >>]

(* a bug: files the checkpoint has no snapshot of are removed *)
_rollback_file_snapshots_RemovesUnknown(file_snapshots, fs, bad) ==
    [ok    |-> DOMAIN file_snapshots \cap bad = {},
     files |-> [p \in Paths |->
                  IF p \notin DOMAIN file_snapshots THEN NoFile
                  ELSE IF p \notin bad THEN file_snapshots[p] ELSE fs[p]]]

(* _rollback_file_snapshots: every snapshot is written; a write that      *)
(* raises is logged and the loop goes on                                  *)
_rollback_file_snapshots(file_snapshots, fs, bad) ==
    [ok    |-> DOMAIN file_snapshots \cap bad = {},
     files |-> [p \in Paths |->
                  IF p \in DOMAIN file_snapshots /\ p \notin bad
                  THEN file_snapshots[p] ELSE fs[p]]]

(* the content _rollback_version_state writes into one version file *)
RestoreVersion(p, content, target_version) ==
    IF FormatOf(p).replacement THEN ReplaceLiteral(content, target_version)
                               ELSE SubEachGroup(content, target_version)

VersionRestorable(fs, bad, p) == HasFormat(p) /\ Readable(fs, bad, p)

(* a bug: the first failure ends the loop (here: nothing is restored) *)
_rollback_version_state_AbortsOnFailure(version_state, fs, bad) ==
    [ok    |-> \A p \in DOMAIN version_state : VersionRestorable(fs, bad, p),
     files |-> IF \A p \in DOMAIN version_state : VersionRestorable(fs, bad, p)
               THEN [p \in Paths |->
                       IF p \in DOMAIN version_state
                       THEN RestoreVersion(p, fs[p], version_state[p]) ELSE fs[p]]
               ELSE fs]

(* for each version_state entry: no format or no file marks a failure and *)
(* `continue`s, an exception is caught inside the loop                    *)
_rollback_version_state(version_state, fs, bad) ==
    [ok    |-> \A p \in DOMAIN version_state : VersionRestorable(fs, bad, p),
     files |-> [p \in Paths |->
                  IF p \in DOMAIN version_state /\ VersionRestorable(fs, bad, p)
                  THEN RestoreVersion(p, fs[p], version_state[p]) ELSE fs[p]]]

(* checkpoint_file.exists() and json.load succeed *)
Loads(dir, id) == id \in DOMAIN dir /\ dir[id].parses

(* the trace of one rollback_to_checkpoint call: what each phase          *)
(* reported, the git commands run, the paths whose write_text raised in   *)
(* the file phase (wbad) and whose read or write raised in the version    *)
(* phase (vbad), and the value returned                                   *)
Trace(id, loaded, phases, result, cmds, wbad, vbad) ==
    [id |-> id, loaded |-> loaded, phases |-> phases, result |-> result,
     cmds |-> cmds, wbad |-> wbad, vbad |-> vbad]
NoRollback == Trace(NoneId, FALSE, <<>>, FALSE, <<>>, {}, {})

(* the record of one RollbackManager call: whether it raised, and the id, *)
(* boolean or count it returned; arg is an integer argument, faults the   *)
(* number of exceptions the call caught and logged                        *)
Call(op, raised, id, ret, n) ==
    [op |-> op, raised |-> raised, id |-> id, ret |-> ret, n |-> n,
     arg |-> 0, faults |-> 0]
NoCall == Call("none", FALSE, NoneId, FALSE, 0)

(* the record of one version-manager call: its arguments, the paths on    *)
(* which read_text or write_text raised in it (bad), the base version it  *)
(* read and the new version it computed, whether it raised, the mapping   *)
(* it returned, and how many such calls have been made                    *)
NoVersions == [p \in {} |-> NoVer]
VmCall(op, bump_type, target, bad, base, new, raised, ret, calls) ==
    [op |-> op, bump_type |-> bump_type, target |-> target, bad |-> bad,
     base |-> base, new |-> new, raised |-> raised, ret |-> ret, calls |-> calls]
NoVm == VmCall("none", "", NoVer, {}, NoVer, NoVer, FALSE, NoVersions, 0)
CreateCall(op, outcome) ==
    Call("create_checkpoint", outcome /= "ok",
         IF outcome = "ok" THEN _generate_checkpoint_id(op, now) ELSE NoneId,
         FALSE, 0)


(* the step made no RollbackManager call *)
NoCalls ==
    /\ last_rollback' = NoRollback /\ last_call' = NoCall
    /\ vm' = vm /\ wf' = wf

(* a bug: the version phase's result is left out of the conjunction *)
OverallSuccess_WithoutVersions(g, f, v) == g /\ f

(* overall_success = git and files and versions *)
OverallSuccess(g, f, v) == g /\ f /\ v

(* a bug: the failure to load is reported as success *)
NotLoaded_ReturnsTrue(id) ==
    [trace  |-> Trace(id, FALSE, <<>>, TRUE, <<>>, {}, {}),
     files  |-> files, branch |-> branch, tip |-> tip]

(* `return False` when the document is missing, or from the except       *)
(* clause when json.load raises: nothing has been touched                 *)
NotLoaded(id) ==
    [trace  |-> Trace(id, FALSE, <<>>, FALSE, <<>>, {}, {}),
     files  |-> files, branch |-> branch, tip |-> tip]

(* rollback_to_checkpoint: the three phases in order, each on the tree    *)
(* the phase before it left                                               *)
rollback_to_checkpoint(id, resetOk, checkoutOk, wbad, vbad) ==
    IF ~Loads(ckdir, id)
    THEN NotLoaded(id)
    ELSE LET doc == ckdir[id]
             g   == _rollback_git_state(doc.git_state, files, resetOk, checkoutOk)
             f   == _rollback_file_snapshots(doc.file_snapshots, g.files, wbad)
             v   == _rollback_version_state(doc.version_state, f.files, vbad)
         IN  [trace  |-> Trace(id, TRUE,
                                << <<"git", g.ok>>, <<"files", f.ok>>,
                                   <<"versions", v.ok>> >>,
                                OverallSuccess(g.ok, f.ok, v.ok),
                                g.cmds, wbad, vbad),
              files  |-> v.files, branch |-> g.branch, tip |-> g.tip]

(* the outcomes of git, read_text and write_text that one call of         *)
(* rollback_to_checkpoint(id) can meet: a git command is only run when    *)
(* HEAD is not at the checkpoint's commit, and only the checkpoint's      *)
(* paths are written and read                                             *)
GitOutcomes(id) ==
    IF Loads(ckdir, id) /\ ckdir[id].git_state.commit_hash /= HeadCommit
    THEN BOOLEAN ELSE {TRUE}
CheckoutOutcomes(id) ==
    IF Loads(ckdir, id) /\ ckdir[id].git_state.commit_hash /= HeadCommit
                       /\ ckdir[id].git_state.branch /= branch
    THEN BOOLEAN ELSE {TRUE}
SnapshotPaths(id) ==
    IF Loads(ckdir, id) THEN DOMAIN ckdir[id].file_snapshots ELSE {}
VersionStatePaths(id) ==
    IF Loads(ckdir, id) THEN DOMAIN ckdir[id].version_state ELSE {}

(* one call of rollback_to_checkpoint as a state change *)
DoRollback(id) ==
    \E resetOk \in GitOutcomes(id), checkoutOk \in CheckoutOutcomes(id),
       wbad \in IOFailures(SnapshotPaths(id)),
       vbad \in IOFailures(VersionStatePaths(id)) :
        LET r == rollback_to_checkpoint(id, resetOk, checkoutOk, wbad, vbad)
        IN  /\ files' = r.files
            /\ branch' = r.branch
            /\ tip' = r.tip
            /\ last_rollback' = r.trace
            /\ UNCHANGED <<version_formats, commits, ckdir, now, vm, wf>>

-----------------------------------------------------------------------------
(* Initial state: a repository with one commit on both branches, an empty *)
(* checkpoint directory and a freshly constructed RollbackContext         *)

InitTrees ==
    {[p \in Paths |-> IF p = CargoToml THEN c
                      ELSE IF p = PackageJson THEN <<Ver("canon", SemVer(1, 0, 0))>>
                      ELSE <<Txt>>] : c \in InitContents}

Init ==
    /\ version_formats \in Schemas
    /\ files \in InitTrees
    /\ branch = "main"
    /\ commits = <<files>>
    /\ tip = [b \in Branches |-> 1]
    /\ now = 0
    /\ ckdir = [id \in {} |-> TruncatedDoc]
    /\ pc = "created"
    /\ operation_id = "commit"
    /\ checkpoint_id = NoneId
    /\ should_rollback = TRUE
    /\ exc_val = "none"
    /\ propagated = "none"
    /\ exit_calls = <<>>
    /\ last_rollback = NoRollback
    /\ last_call = NoCall
    /\ vm = NoVm
    /\ wf = NoWorkflow

-----------------------------------------------------------------------------
(* RollbackContext *)

(* a bug: __enter__ swallows create_checkpoint's exception *)
EnterTarget_AlwaysBody(outcome) == "body"

(* where __enter__ leaves the scope: in the body once create_checkpoint   *)
(* has returned, out of the with-statement when it raised                 *)
EnterTarget(outcome) == IF outcome = "ok" THEN "body" ELSE "enter_failed"

(* __enter__ *)
Enter(bad, outcome) ==
    /\ pc = "created"
    /\ HasRoom(operation_id)
    /\ ckdir' = create_checkpoint(operation_id, bad, outcome)
    /\ pc' = EnterTarget(outcome)
    /\ checkpoint_id' = IF outcome = "ok"
                        THEN _generate_checkpoint_id(operation_id, now)
                        ELSE checkpoint_id
    /\ propagated' = IF outcome = "ok" THEN propagated ELSE "OSError"
    /\ last_call' = CreateCall(operation_id, outcome)
    /\ last_rollback' = NoRollback
    /\ UNCHANGED <<version_formats, files, git, now, operation_id,
                   should_rollback, exc_val, exit_calls, vm, wf>>

(* disable_rollback, called by the body *)
DisableRollback ==
    /\ pc = "body"
    /\ should_rollback' = FALSE
    /\ NoCalls
    /\ UNCHANGED <<version_formats, files, git, now, ckdir, pc, operation_id,
                   checkpoint_id, exc_val, propagated, exit_calls>>

(* a bug: the exception is not consulted *)
ExitRollsBack_OnNormalExit(e) == should_rollback

(* a bug: the should_rollback flag is not consulted *)
ExitRollsBack_IgnoresDisable(e) == e /= "none"

(* `if exc_type is not None and self.should_rollback` *)
ExitRollsBack(e) == e /= "none" /\ should_rollback

(* a bug: __exit__ returns True after the rollback as well *)
ExitReturn_AlwaysTrue(e) == TRUE

(* __exit__'s return value: False after a rollback, True otherwise *)
ExitReturn(e) == IF ExitRollsBack(e) THEN FALSE ELSE TRUE

(* what the with-statement does with that value: a true value suppresses  *)
(* the exception in flight, a false one lets it propagate                 *)
ExitPropagates(e) == IF e /= "none" /\ ~ExitReturn(e) THEN e ELSE "none"

(* the body ends, normally (e = "none") or by raising e, and __exit__ runs *)
Exit(e) ==
    /\ pc = "body"
    /\ pc' = "exited"
    /\ exc_val' = e
    /\ propagated' = ExitPropagates(e)
    /\ IF ExitRollsBack(e)
       THEN /\ DoRollback(checkpoint_id)
            /\ exit_calls' = Append(exit_calls, checkpoint_id)
            /\ last_call' = Call("rollback_to_checkpoint", FALSE, NoneId,
                                  last_rollback'.result, 0)
       ELSE /\ NoCalls
            /\ UNCHANGED <<version_formats, files, git, now, ckdir, exit_calls>>
    /\ UNCHANGED <<operation_id, checkpoint_id, should_rollback>>

-----------------------------------------------------------------------------
(* What a scope body does to the project *)

BodyFrame == NoCalls /\ UNCHANGED <<version_formats, now, ckdir, ctx>>

BumpVersion(bump_type, bad) ==
    /\ pc = "body"
    /\ DOMAIN get_current_versions(files, bad) /= {}
    /\ WithinBound(_calculate_new_version(
                       FirstVersion(get_current_versions(files, bad)), bump_type))
    /\ bump_version(bump_type, bad)
    /\ UNCHANGED git
    /\ BodyFrame

SyncVersions(target, bad) ==
    /\ pc = "body"
    /\ sync_versions(target, bad)
    /\ UNCHANGED git
    /\ BodyFrame

(* an arbitrary write to a project file, e.g. by an auto-fixer *)
WriteFile(p, c) ==
    /\ pc = "body"
    /\ files[p] /= c
    /\ files' = [files EXCEPT ![p] = c]
    /\ UNCHANGED git
    /\ BodyFrame

(* git add -A; git commit *)
GitCommit ==
    /\ pc = "body"
    /\ Len(commits) < MaxCommits
    /\ files /= commits[HeadCommit]
    /\ commits' = Append(commits, files)
    /\ tip' = [tip EXCEPT ![branch] = Len(commits) + 1]
    /\ UNCHANGED <<files, branch>>
    /\ BodyFrame

(* git checkout <b> *)
GitCheckout(b) ==
    /\ pc = "body"
    /\ b /= branch
    /\ CheckoutClean(files, commits[HeadCommit], commits[tip[b]])
    /\ files' = CheckoutTree(files, commits[HeadCommit], commits[tip[b]])
    /\ branch' = b
    /\ UNCHANGED <<tip, commits>>
    /\ BodyFrame

Tick ==
    /\ now < MaxTime
    /\ now' = now + 1
    /\ NoCalls
    /\ UNCHANGED <<version_formats, files, git, ckdir, ctx>>

-----------------------------------------------------------------------------
(* RollbackManager, called directly between scopes *)

Idle == pc /= "body"

CreateCheckpoint(op, bad, outcome) ==
    /\ Idle
    /\ HasRoom(op)
    /\ ckdir' = create_checkpoint(op, bad, outcome)
    /\ last_call' = CreateCall(op, outcome)
    /\ last_rollback' = NoRollback
    /\ UNCHANGED <<version_formats, files, git, now, ctx, vm, wf>>

RollbackToCheckpoint(id) ==
    /\ Idle
    /\ DoRollback(id)
    /\ last_call' = Call("rollback_to_checkpoint", FALSE, NoneId,
                          last_rollback'.result, 0)
    /\ UNCHANGED ctx

(* the ids a caller passes: those of the documents on disk, and one id    *)
(* no document has (all such ids are treated alike)                       *)
RollbackIds ==
    DOMAIN ckdir \cup
    (IF AllIds \subseteq DOMAIN ckdir THEN {}
     ELSE {CHOOSE id \in AllIds : id \notin DOMAIN ckdir})

RollbackLastOperation ==
    /\ Idle
    /\ LET latest == _get_latest_checkpoint(ckdir)
       IN  IF latest = NoneId
           THEN /\ last_call' = Call("rollback_last_operation", FALSE, NoneId,
                                      FALSE, 0)
                /\ last_rollback' = NoRollback
                /\ UNCHANGED <<version_formats, files, git, now, ckdir, vm, wf>>
           ELSE /\ DoRollback(latest)
                /\ last_call' = Call("rollback_last_operation", FALSE, NoneId,
                                      last_rollback'.result, 0)
    /\ UNCHANGED ctx

(* the project's files edited between RollbackManager calls *)
EditFile(p, c) ==
    /\ Idle
    /\ files[p] /= c
    /\ files' = [files EXCEPT ![p] = c]
    /\ NoCalls
    /\ UNCHANGED <<version_formats, git, now, ckdir, ctx>>

(* checkpoints[keep_count:], with Python's reading of a negative index *)
SliceFrom(seq, k) ==
    LET start == IF k >= 0 THEN IF k > Len(seq) THEN Len(seq) ELSE k
                 ELSE IF Len(seq) + k < 0 THEN 0 ELSE Len(seq) + k
    IN  [i \in 1..(Len(seq) - start) |-> seq[start + i]]

(* the keep_count values a caller passes: an int, not validated *)
KeepCounts == (-1)..1

(* a bug: the newest checkpoints are the ones removed *)
checkpoints_to_remove_Newest(dir, keep_count) ==
    IF Len(list_checkpoints(dir)) <= keep_count THEN <<>>
    ELSE SliceFrom(Reverse(list_checkpoints(dir)), keep_count)

(* the summaries cleanup_checkpoints(keep_count) goes on to unlink *)
checkpoints_to_remove(dir, keep_count) ==
    IF Len(list_checkpoints(dir)) <= keep_count THEN <<>>
    ELSE SliceFrom(list_checkpoints(dir), keep_count)

Range(seq) == {seq[i] : i \in DOMAIN seq}

(* cleanup_checkpoints; unlinkFails: the documents whose unlink raises *)
CleanupCheckpoints(keep_count, unlinkFails) ==
    /\ Idle
    /\ LET to_remove == Range(checkpoints_to_remove(ckdir, keep_count))
           removed   == to_remove \ unlinkFails
       IN  /\ ckdir' = [id \in DOMAIN ckdir \ removed |-> ckdir[id]]
           /\ last_call' = [Call("cleanup_checkpoints", FALSE, NoneId, FALSE,
                                  Cardinality(removed))
                               EXCEPT !.arg = keep_count,
                                      !.faults = Cardinality(to_remove \cap unlinkFails)]
    /\ last_rollback' = NoRollback
    /\ UNCHANGED <<version_formats, files, git, now, ctx, vm, wf>>

(* list_checkpoints, called by a client: it returns the summaries and    *)
(* changes nothing; the call record keeps the first id and the length     *)
ListCheckpoints ==
    /\ Idle
    /\ LET checkpoints == list_checkpoints(ckdir)
       IN  last_call' = Call("list_checkpoints", FALSE,
                             IF checkpoints = <<>> THEN NoneId ELSE checkpoints[1],
                             FALSE, Len(checkpoints))
    /\ last_rollback' = NoRollback
    /\ UNCHANGED <<version_formats, files, git, now, ckdir, ctx, vm, wf>>

-----------------------------------------------------------------------------

(* One RollbackContext scope: __enter__, the body's work on the project,  *)
(* __exit__                                                               *)
Next ==
    \/ \E outcome \in WriteOutcomes :
          \E bad \in ReadFailures(outcome) : Enter(bad, outcome)
    \/ DisableRollback
    \/ \E e \in {"none"} \cup Exceptions : Exit(e)
    \/ \E t \in BumpTypes, bad \in IOFailures(VersionPaths) : BumpVersion(t, bad)
    \/ \E v \in SyncTargets, bad \in IOFailures(VersionPaths) : SyncVersions(v, bad)
    \/ \E p \in VersionPaths, c \in WriteContents \cup {NoFile} : WriteFile(p, c)
    \/ GitCommit
    \/ \E b \in Branches : GitCheckout(b)

Spec == Init /\ [][Next]_vars

(* Restoration with two version files: one scope takes a checkpoint, its  *)
(* body edits, creates and deletes project files and commits; afterwards  *)
(* the tool may be started again with another schema and roll back to the *)
(* checkpoint the scope left on disk                                      *)
RestoreSchemas ==
    { <<VersionFormat(CargoToml, TRUE), VersionFormat(PackageJson, FALSE)>>,
      <<VersionFormat(CargoToml, FALSE)>>,
      <<VersionFormat(PackageJson, FALSE)>> }

RestoreTrees ==
    {[p \in Paths |-> IF p = CargoToml THEN <<Ver("canon", SemVer(1, 0, 0))>>
                      ELSE IF p = PackageJson THEN k
                      ELSE d] :
        k \in {<<Ver("canon", SemVer(1, 0, 0))>>, NoFile},
        d \in {<<Txt>>}}

(* what a scope body writes into a project file *)
RestoreWrites(p) ==
    IF p \in config_files THEN {<<Txt, Txt>>, NoFile}
    ELSE {<<Ver("alt", SemVer(2, 0, 0))>>, NoFile}

InitRestore ==
    /\ version_formats \in RestoreSchemas
    /\ files \in RestoreTrees
    /\ branch = "main"
    /\ commits = <<files>>
    /\ tip = [b \in Branches |-> 1]
    /\ now = 0
    /\ ckdir = [id \in {} |-> TruncatedDoc]
    /\ pc = "created"
    /\ operation_id = "commit"
    /\ checkpoint_id = NoneId
    /\ should_rollback = TRUE
    /\ exc_val = "none"
    /\ propagated = "none"
    /\ exit_calls = <<>>
    /\ last_rollback = NoRollback
    /\ last_call = NoCall
    /\ vm = NoVm
    /\ wf = NoWorkflow

(* a new RollbackManager is constructed with a schema from which one     *)
(* format was removed; the checkpoint directory is the one the earlier    *)
(* run left                                                               *)
Reconfigure(schema) ==
    /\ pc = "exited"
    /\ Len(schema) < Len(version_formats)
    /\ version_formats' = schema
    /\ NoCalls
    /\ UNCHANGED <<files, git, now, ckdir, ctx>>

NextRestore ==
    \/ \E bad \in ReadFailures("ok") : Enter(bad, "ok")
    \/ \E e \in {"none", "RuntimeError"} : Exit(e)
    \/ \E p \in Paths : \E c \in RestoreWrites(p) : WriteFile(p, c)
    \/ GitCommit
    \/ \E schema \in RestoreSchemas : Reconfigure(schema)
    \/ \E id \in DOMAIN ckdir : pc = "exited" /\ RollbackToCheckpoint(id)

SpecRestore == InitRestore /\ [][NextRestore]_vars

(* The checkpoint store driven directly: checkpoints are created, listed, *)
(* rolled back to and pruned while the project's files are edited         *)
NextStore ==
    \/ \E op \in Ops, outcome \in WriteOutcomes :
          \E bad \in ReadFailures(outcome) : CreateCheckpoint(op, bad, outcome)
    \/ \E id \in RollbackIds : RollbackToCheckpoint(id)
    \/ RollbackLastOperation
    \/ \E k \in KeepCounts :
          \E u \in IOFailures(Range(checkpoints_to_remove(ckdir, k))) :
              CleanupCheckpoints(k, u)
    \/ ListCheckpoints
    \/ \E p \in VersionPaths, c \in WriteContents : EditFile(p, c)
    \/ Tick

SpecStore == Init /\ [][NextStore]_vars

-----------------------------------------------------------------------------
(* UniversalVersionManager called directly on a project whose version     *)
(* files may have drifted apart                                           *)

(* schemas of one or two version files, each format with or without a    *)
(* replacement template                                                   *)
VmSchemas ==
    { <<VersionFormat(CargoToml, t)>> : t \in BOOLEAN } \cup
    { <<VersionFormat(CargoToml, t), VersionFormat(PackageJson, u)>> :
        t \in BOOLEAN, u \in BOOLEAN }

(* version strings that are not MAJOR.MINOR.PATCH: two components only,   *)
(* a pre-release suffix                                                   *)
NonConforming == { [n |-> <<1, 2>>, suf |-> ""], [n |-> <<1, 0, 0>>, suf |-> "-beta"] }

(* contents of Cargo.toml: one version line (not spelled as the template  *)
(* spells it), a version line followed by a dependency's version line, no *)
(* version line at all, or no file                                        *)
VmCargoContents ==
    { <<Ver("alt", v)>> :
        v \in {SemVer(0, 0, 0), SemVer(BigComponent, 65535, 255)} \cup NonConforming }
    \cup { <<Txt, Ver("canon", SemVer(1, 0, 0)), Txt, Ver("alt", SemVer(0, 1, 0))>>,
           <<Txt>>, NoFile }

VmPackageContents == { <<Txt, Ver("canon", SemVer(0, 1, 0)), Txt>>, NoFile }

VmTrees ==
    {[p \in Paths |-> IF p = CargoToml THEN c
                      ELSE IF p = PackageJson THEN d
                      ELSE <<Txt>>] : c \in VmCargoContents, d \in VmPackageContents}

(* the target_version strings a caller passes to sync_versions *)
VmSyncTargets ==
    { SemVer(0, 1, 1), [n |-> <<0, 1, 1>>, suf |-> "\n"] } \cup NonConforming

InitVM ==
    /\ version_formats \in VmSchemas
    /\ files \in VmTrees
    /\ branch = "main"
    /\ commits = <<files>>
    /\ tip = [b \in Branches |-> 1]
    /\ now = 0
    /\ ckdir = [id \in {} |-> TruncatedDoc]
    /\ pc = "created"
    /\ operation_id = "commit"
    /\ checkpoint_id = NoneId
    /\ should_rollback = TRUE
    /\ exc_val = "none"
    /\ propagated = "none"
    /\ exit_calls = <<>>
    /\ last_rollback = NoRollback
    /\ last_call = NoCall
    /\ vm = NoVm
    /\ wf = NoWorkflow

(* MultiProviderOrchestrator._calculate_next_version: the same parse,     *)
(* with the bump type taken from the schema and anything that is not      *)
(* major or minor read as patch                                           *)
_calculate_next_version(v, bump_type) ==
    IF Len(v.n) < 3 THEN v
    ELSE CASE bump_type = "major" -> SemVer(v.n[1] + 1, 0, 0)
           [] bump_type = "minor" -> SemVer(v.n[1], v.n[2] + 1, 0)
           [] OTHER               -> SemVer(v.n[1], v.n[2], v.n[3] + 1)

(* updated_versions of bump_version: the files written, each mapped to    *)
(* the new version                                                        *)
bump_updated_versions(fs, bad, new) ==
    [p \in {q \in VersionPaths : Readable(fs, bad, q) /\ HasMatch(fs[q])} |-> new]

(* updated_versions of sync_versions: a format with a template is written *)
(* and reported whether or not its pattern matched                        *)
sync_updated_versions(fs, bad, target) ==
    [p \in {q \in VersionPaths :
               /\ Readable(fs, bad, q)
               /\ FormatOf(q).replacement \/ HasMatch(fs[q])} |-> target]

VmFrame ==
    /\ last_rollback' = NoRollback
    /\ last_call' = NoCall
    /\ UNCHANGED <<version_formats, git, now, ckdir, ctx, wf>>

(* bump_version(bump_type); it raises ValueError when no version is found *)
VmBumpVersion(bump_type, bad) ==
    /\ Idle
    /\ vm.calls < MaxVmCalls
    /\ LET cur == get_current_versions(files, bad)
       IN  IF DOMAIN cur = {}
           THEN /\ vm' = VmCall("bump_version", bump_type, NoVer, bad, NoVer, NoVer,
                                TRUE, NoVersions, vm.calls + 1)
                /\ UNCHANGED files
           ELSE LET base == FirstVersion(cur)
                    new  == _calculate_new_version(base, bump_type)
                IN  /\ bump_version(bump_type, bad)
                    /\ vm' = VmCall("bump_version", bump_type, NoVer, bad, base, new,
                                    FALSE, bump_updated_versions(files, bad, new),
                                    vm.calls + 1)
    /\ VmFrame

(* sync_versions(target_version); it raises ValueError when the target    *)
(* fails _is_valid_semver                                                 *)
VmSyncVersions(target, bad) ==
    /\ Idle
    /\ vm.calls < MaxVmCalls
    /\ IF ~_is_valid_semver(target)
       THEN /\ vm' = VmCall("sync_versions", "", target, bad, NoVer, NoVer,
                            TRUE, NoVersions, vm.calls + 1)
            /\ UNCHANGED files
       ELSE /\ sync_versions(target, bad)
            /\ vm' = VmCall("sync_versions", "", target, bad, NoVer, target,
                            FALSE, sync_updated_versions(files, bad, target),
                            vm.calls + 1)
    /\ VmFrame

(* step 6 of the orchestrator's workflow: the next version is computed    *)
(* from the current one and the schema's bump type                        *)
VmNextVersion(bump_type) ==
    /\ Idle
    /\ vm.calls < MaxVmCalls
    /\ DOMAIN get_current_versions(files, {}) /= {}
    /\ LET base == FirstVersion(get_current_versions(files, {}))
       IN  vm' = VmCall("_calculate_next_version", bump_type, NoVer, {}, base,
                        _calculate_next_version(base, bump_type), FALSE,
                        NoVersions, vm.calls + 1)
    /\ UNCHANGED files
    /\ VmFrame

NextVM ==
    \/ \E t \in BumpTypes, bad \in IOFailures(VersionPaths) : VmBumpVersion(t, bad)
    \/ \E v \in VmSyncTargets, bad \in IOFailures(VersionPaths) : VmSyncVersions(v, bad)
    \/ \E t \in BumpTypes : VmNextVersion(t)

SpecVM == InitVM /\ [][NextVM]_vars

-----------------------------------------------------------------------------
(* Schema loading: the DuggerSchema constructor runs                      *)
(* validate_version_formats on the version formats the schema file lists, *)
(* and the version manager then works with the formats that were accepted *)

(* what a pattern string can be: a regex with a capturing group, a regex  *)
(* without one, or a string re.compile rejects                            *)
PatternKinds == {"group", "no_group", "invalid"}

VersionFormatWithPattern(p, template, pattern) ==
    [file_path |-> p, replacement |-> template, pattern |-> pattern]

(* the version_formats lists a schema file may hold *)
SchemaData ==
    { <<>> } \cup
    { <<VersionFormatWithPattern(CargoToml, t, k)>> :
        t \in BOOLEAN, k \in PatternKinds } \cup
    { <<VersionFormatWithPattern(CargoToml, TRUE, k),
        VersionFormatWithPattern(PackageJson, FALSE, l)>> :
        k \in PatternKinds, l \in PatternKinds }

SchemaTrees ==
    {[p \in Paths |-> IF p = CargoToml THEN c
                      ELSE IF p = PackageJson THEN d
                      ELSE <<Txt>>] :
        c \in {<<Ver("canon", SemVer(1, 0, 0))>>, <<Txt>>, NoFile},
        d \in {<<Ver("canon", SemVer(0, 1, 0))>>, NoFile}}

InitSchema ==
    /\ version_formats = <<>>
    /\ files \in SchemaTrees
    /\ branch = "main"
    /\ commits = <<files>>
    /\ tip = [b \in Branches |-> 1]
    /\ now = 0
    /\ ckdir = [id \in {} |-> TruncatedDoc]
    /\ pc = "created"
    /\ operation_id = "commit"
    /\ checkpoint_id = NoneId
    /\ should_rollback = TRUE
    /\ exc_val = "none"
    /\ propagated = "none"
    /\ exit_calls = <<>>
    /\ last_rollback = NoRollback
    /\ last_call = NoCall
    /\ vm = NoVm
    /\ wf = NoWorkflow

(* validate_version_formats: the list is accepted when it is not empty    *)
(* and re.compile takes every pattern                                     *)
validate_version_formats(v) ==
    /\ v /= <<>>
    /\ \A i \in DOMAIN v : v[i].pattern /= "invalid"

(* SchemaLoader._load_from_file: the DuggerSchema constructor raises when *)
(* the validator does, and the loader re-raises                           *)
LoadSchema(data) ==
    /\ version_formats = <<>>
    /\ IF validate_version_formats(data)
       THEN /\ version_formats' = data
            /\ last_call' = Call("load_schema", FALSE, NoneId, TRUE, 0)
       ELSE /\ version_formats' = version_formats
            /\ last_call' = Call("load_schema", TRUE, NoneId, FALSE, 0)
    /\ last_rollback' = NoRollback
    /\ UNCHANGED <<files, git, now, ckdir, ctx, vm, wf>>

(* the paths on which match.group(1) raises IndexError: the pattern has   *)
(* no group and matched                                                   *)
GroupErrors(fs) ==
    {p \in VersionPaths :
        FormatOf(p).pattern = "no_group" /\ Exists(fs, p) /\ HasMatch(fs[p])}

(* get_current_versions with the accepted formats: its except clause      *)
(* catches a read error and the IndexError alike, logs it and goes on     *)
GetCurrentVersions(bad) ==
    /\ version_formats /= <<>>
    /\ vm.calls < MaxVmCalls
    /\ LET caught == bad \cup GroupErrors(files)
       IN  vm' = VmCall("get_current_versions", "", NoVer, caught, NoVer, NoVer,
                        FALSE, get_current_versions(files, caught), vm.calls + 1)
    /\ UNCHANGED files
    /\ VmFrame

NextSchema ==
    \/ \E data \in SchemaData : LoadSchema(data)
    \/ \E bad \in IOFailures(VersionPaths) : GetCurrentVersions(bad)

SpecSchema == InitSchema /\ [][NextSchema]_vars

-----------------------------------------------------------------------------
(* DGTOrchestrator.run_commit_workflow, step by step.  wf.steps are the    *)
(* steps run so far, wf.calls the calls made that change the repository   *)
(* or the version files, in order.  Every step runs inside the method's   *)
(* try block, whose except clause turns an exception into the result.     *)

StagedCounts == 0..MaxStaged

(* the lists of CheckResult.success a provider's checks return *)
RECURSIVE CheckResults(_)
CheckResults(n) ==
    IF n = 0 THEN { <<>> }
    ELSE CheckResults(n - 1) \cup
         { Append(r, b) : r \in {s \in CheckResults(n - 1) : Len(s) = n - 1},
                          b \in BOOLEAN }

InitWorkflow ==
    /\ version_formats = <<VersionFormat(CargoToml, TRUE)>>
    /\ files = [p \in Paths |-> IF p = DuggerYaml THEN <<Txt>>
                                ELSE <<Ver("canon", SemVer(1, 0, 0))>>]
    /\ branch = "main"
    /\ commits = <<files>>
    /\ tip = [b \in Branches |-> 1]
    /\ now = 0
    /\ ckdir = [id \in {} |-> TruncatedDoc]
    /\ pc = "created"
    /\ operation_id = "commit"
    /\ checkpoint_id = NoneId
    /\ should_rollback = TRUE
    /\ exc_val = "none"
    /\ propagated = "none"
    /\ exit_calls = <<>>
    /\ last_rollback = NoRollback
    /\ last_call = NoCall
    /\ vm = NoVm
    /\ wf = NoWorkflow

WfFrame ==
    /\ last_rollback' = NoRollback
    /\ last_call' = NoCall
    /\ UNCHANGED <<version_formats, files, git, now, ckdir, ctx, vm>>

(* the step w.step has run *)
Ran(w) == [w EXCEPT !.steps = Append(w.steps, w.step)]

(* `raise ValueError(msg)` inside the try block: the except clause sets   *)
(* success False and message str(e), and the method returns the result    *)
Raise(w, msg) ==
    [w EXCEPT !.step = "returned", !.success = FALSE, !.message = msg,
              !.raised = FALSE]

(* `if not staged_files` *)
NoStagedFiles(staged) == staged = 0

(* a bug: failed checks are not looked at *)
FailedChecks_Ignored(results) == {}

(* failed_checks = [r for r in pre_flight_results if not r.success] *)
FailedChecks(results) == {i \in DOMAIN results : ~results[i]}

(* the call: the result is initialised and the try block entered *)
RunCommitWorkflow(auto_add, auto_bump, auto_push) ==
    /\ wf.step = "idle"
    /\ wf' = [wf EXCEPT !.step = "validate", !.auto_add = auto_add,
                        !.auto_bump = auto_bump, !.auto_push = auto_push]
    /\ WfFrame

(* Step 1: validate environment *)
Step1_ValidateEnvironment(active_provider, env_ok) ==
    /\ wf.step = "validate"
    /\ wf' = IF ~active_provider
             THEN Raise(Ran(wf), "No active provider detected")
             ELSE IF ~env_ok
             THEN Raise(Ran(wf), "Environment validation failed")
             ELSE [Ran(wf) EXCEPT !.step = "status"]
    /\ WfFrame

(* Step 2: get the git status and stage files.  get_git_status reports    *)
(* staged files only for a dirty tree; with auto_add a dirty tree is      *)
(* staged as a whole and the status read again                            *)
Step2_StageFiles(is_dirty, staged_before, staged_after) ==
    /\ wf.step = "status"
    /\ LET add    == wf.auto_add /\ is_dirty
           staged == IF add THEN staged_after
                     ELSE IF is_dirty THEN staged_before ELSE 0
           w      == [Ran(wf) EXCEPT
                         !.calls = IF add THEN Append(@, "stage_all") ELSE @,
                         !.staged_found = staged, !.staged = staged]
       IN  wf' = IF NoStagedFiles(staged)
                 THEN Raise(w, "No staged changes to commit")
                 ELSE [w EXCEPT !.step = "fixes"]
    /\ WfFrame

(* Step 3: run auto-fixes; when some were applied everything is staged    *)
(* again and the staged files are read again                              *)
Step3_AutoFix(fixes_applied, restaged) ==
    /\ wf.step = "fixes"
    /\ wf' = IF fixes_applied
             THEN [Ran(wf) EXCEPT !.step = "preflight",
                                  !.calls = Append(@, "stage_all"),
                                  !.staged = restaged]
             ELSE [Ran(wf) EXCEPT !.step = "preflight"]
    /\ WfFrame

(* Step 4: run pre-flight checks *)
Step4_PreFlight(results) ==
    /\ wf.step = "preflight"
    /\ LET w == [Ran(wf) EXCEPT !.checks = results]
       IN  wf' = IF FailedChecks(results) /= {}
                 THEN Raise(w, "Pre-flight checks failed")
                 ELSE [w EXCEPT !.step = "commit"]
    /\ WfFrame

(* Steps 5 and 6: generate the message and commit *)
Step6_Commit(commit_ok) ==
    /\ wf.step = "commit"
    /\ LET w == [Ran(wf) EXCEPT !.calls = Append(@, "commit")]
       IN  wf' = IF ~commit_ok
                 THEN Raise(w, "Git commit failed")
                 ELSE [w EXCEPT !.step = "bump", !.commit_hash = TRUE]
    /\ WfFrame

(* Step 7: version management, if enabled; bump_version may raise, the    *)
(* result of the second commit is not looked at                           *)
Step7_VersionManagement(bump_raises) ==
    /\ wf.step = "bump"
    /\ wf' = IF ~wf.auto_bump
             THEN [Ran(wf) EXCEPT !.step = "postflight"]
             ELSE IF bump_raises
             THEN Raise([Ran(wf) EXCEPT !.calls = Append(@, "bump_version")],
                        "No version files found to bump")
             ELSE [Ran(wf) EXCEPT
                      !.step = "postflight",
                      !.calls = @ \o <<"bump_version", "stage_all", "commit">>]
    /\ WfFrame

(* Step 8: run post-flight checks; failures are only logged *)
Step8_PostFlight ==
    /\ wf.step = "postflight"
    /\ wf' = [Ran(wf) EXCEPT !.step = "push"]
    /\ WfFrame

(* Step 9: pull and push if configured (a failed push is only shown),     *)
(* then the result is marked successful and returned                      *)
Step9_Push ==
    /\ wf.step = "push"
    /\ wf' = [Ran(wf) EXCEPT
                 !.step = "returned", !.success = TRUE,
                 !.message = "Successfully committed and pushed changes",
                 !.calls = IF wf.auto_push THEN @ \o <<"pull", "push">> ELSE @]
    /\ WfFrame

NextWorkflow ==
    \/ \E auto_add \in BOOLEAN, auto_bump \in BOOLEAN, auto_push \in BOOLEAN :
          RunCommitWorkflow(auto_add, auto_bump, auto_push)
    \/ \E active_provider \in BOOLEAN, env_ok \in BOOLEAN :
          Step1_ValidateEnvironment(active_provider, env_ok)
    \/ \E is_dirty \in BOOLEAN, before \in StagedCounts, after \in StagedCounts :
          Step2_StageFiles(is_dirty, before, after)
    \/ \E fixes_applied \in BOOLEAN, restaged \in StagedCounts :
          Step3_AutoFix(fixes_applied, restaged)
    \/ \E results \in CheckResults(MaxChecks) : Step4_PreFlight(results)
    \/ \E commit_ok \in BOOLEAN : Step6_Commit(commit_ok)
    \/ \E bump_raises \in BOOLEAN : Step7_VersionManagement(bump_raises)
    \/ Step8_PostFlight
    \/ Step9_Push

SpecWorkflow == InitWorkflow /\ [][NextWorkflow]_vars

-----------------------------------------------------------------------------
(* Properties of the RollbackContext scope (checked under Spec) *)

RaisedInBody == pc = "exited" /\ exc_val /= "none"

PhaseOk(i) == last_rollback.phases[i][2]

(* C1: an exception raised inside the scope body always propagates out of *)
(* the with-statement, whether or not disable_rollback() was called and   *)
(* whatever rollback_to_checkpoint returned.                              *)
C1_ExceptionNeverSwallowed == RaisedInBody => propagated = exc_val

(* C2: when the body raises and disable_rollback() was not called,        *)
(* __exit__ calls rollback_to_checkpoint exactly once, with the id of the *)
(* checkpoint __enter__ created, and the exception the body raised        *)
(* reaches the caller unchanged.                                          *)
C2_RollbackOnceThenPropagate ==
    (RaisedInBody /\ should_rollback) =>
        /\ exit_calls = <<checkpoint_id>>
        /\ last_rollback.id = checkpoint_id
        /\ checkpoint_id \in DOMAIN ckdir
        /\ ckdir[checkpoint_id].checkpoint_id = checkpoint_id
        /\ propagated = exc_val

(* C2 witness: the body raised, the rollback was attempted and failed,    *)
(* and the body's exception is what the caller sees.                      *)
C2_Witness ==
    /\ RaisedInBody /\ should_rollback
    /\ last_rollback.loaded /\ ~last_rollback.result
    /\ propagated = "RuntimeError"

(* C3: after a rollback whose three phases have run (and whose file       *)
(* phase reported no failure), every file recorded in the checkpoint's    *)
(* file_snapshots holds exactly the recorded content.                     *)
C3_RollbackRestoresExactly ==
    (last_rollback.loaded /\ PhaseOk(2)) =>
        \A p \in DOMAIN ckdir[last_rollback.id].file_snapshots :
            files[p] = ckdir[last_rollback.id].file_snapshots[p]

(* C4: when disable_rollback() was called before the body raised,         *)
(* __exit__ calls rollback_to_checkpoint not at all and leaves the files, *)
(* HEAD and the branch as the body left them.                             *)
C4_DisabledRollbackTouchesNothing ==
    [][ (pc = "body" /\ pc' = "exited" /\ exc_val' /= "none" /\ ~should_rollback)
          => /\ files' = files
             /\ branch' = branch /\ tip' = tip /\ commits' = commits
             /\ exit_calls' = <<>>
             /\ last_rollback' = NoRollback ]_vars

(* C4 witness: the body changed a snapshotted file, disabled the rollback *)
(* and raised; the file is in its post-mutation state after the exit.     *)
C4_Witness ==
    /\ RaisedInBody /\ ~should_rollback
    /\ CargoToml \in DOMAIN ckdir[checkpoint_id].file_snapshots
    /\ files[CargoToml] /= ckdir[checkpoint_id].file_snapshots[CargoToml]
    /\ HeadCommit /= ckdir[checkpoint_id].git_state.commit_hash

(* C5: once the document is loaded, the git, file and version phases all  *)
(* run, in that order, whatever the earlier ones reported, and the result *)
(* is True only if all three reported success.                            *)
C5_AllPhasesRunAndAllMustSucceed ==
    last_rollback.loaded =>
        /\ Len(last_rollback.phases) = 3
        /\ last_rollback.phases[1][1] = "git"
        /\ last_rollback.phases[2][1] = "files"
        /\ last_rollback.phases[3][1] = "versions"
        /\ last_rollback.result => (PhaseOk(1) /\ PhaseOk(2) /\ PhaseOk(3))
        /\ PhaseOk(2) =>
              \A p \in DOMAIN ckdir[last_rollback.id].file_snapshots :
                  Exists(files, p)

(* C5 witness: the git phase failed, and the file and version phases ran  *)
(* all the same and succeeded; the call returned False.                   *)
C5_Witness ==
    /\ last_rollback.loaded
    /\ ~PhaseOk(1) /\ PhaseOk(2) /\ PhaseOk(3)
    /\ ~last_rollback.result

(* C7: the scope body runs only once create_checkpoint has written the    *)
(* checkpoint document; when create_checkpoint raises, the exception      *)
(* leaves __enter__, checkpoint_id stays unset and the body does not run  *)
(* (the project is as it was before the with-statement).                  *)
C7_BodyOnlyAfterCheckpoint ==
    /\ pc \in {"body", "exited"} => Loads(ckdir, checkpoint_id)
    /\ (last_call.op = "create_checkpoint" /\ last_call.raised) =>
          /\ pc = "enter_failed"
          /\ checkpoint_id = NoneId
          /\ propagated = "OSError"
    /\ pc = "enter_failed" =>
          /\ files = commits[1] /\ Len(commits) = 1
          /\ branch = "main" /\ tip = [b \in Branches |-> 1]

(* C7 witness: create_checkpoint raised while writing the document. *)
C7_Witness ==
    /\ pc = "enter_failed"
    /\ \E id \in DOMAIN ckdir : ~ckdir[id].parses

(* C14: a scope goes from created to the body (its checkpoint written)    *)
(* and from the body to exited, where it has either made no rollback call *)
(* (committed) or exactly one, to its own checkpoint (rolled back); a     *)
(* normal exit makes no rollback call, changes no file and no git state,  *)
(* and leaves the checkpoint document of the entry on disk.               *)
C14_ScopeStateMachine ==
    /\ [][ pc' /= pc =>
             <<pc, pc'>> \in { <<"created", "body">>, <<"created", "enter_failed">>,
                               <<"body", "exited">> } ]_vars
    /\ [](pc = "exited" =>
            /\ exit_calls = <<>> \/ exit_calls = <<checkpoint_id>>
            /\ exc_val = "none" => exit_calls = <<>>)
    /\ [][ (pc = "body" /\ pc' = "exited" /\ exc_val' = "none") =>
             /\ files' = files
             /\ branch' = branch /\ tip' = tip /\ commits' = commits
             /\ ckdir' = ckdir
             /\ last_rollback' = NoRollback
             /\ Loads(ckdir', checkpoint_id) ]_vars

(* C14 witness: the body changed a snapshotted file and committed, then   *)
(* left the scope normally with rollback still enabled.                   *)
C14_Witness ==
    /\ pc = "exited" /\ exc_val = "none" /\ should_rollback
    /\ CargoToml \in DOMAIN ckdir[checkpoint_id].file_snapshots
    /\ files[CargoToml] /= ckdir[checkpoint_id].file_snapshots[CargoToml]
    /\ HeadCommit /= ckdir[checkpoint_id].git_state.commit_hash

-----------------------------------------------------------------------------
(* Properties of the checkpoint store (checked under SpecStore) *)

(* C6: a create_checkpoint that returns gets an id no document in the     *)
(* directory has, so every document already there is still there          *)
(* afterwards with the content it had; rollback_to_checkpoint and         *)
(* rollback_last_operation leave the directory alone.                     *)
C6_DocumentsNeverOverwritten ==
    [][ /\ (last_call'.op = "create_checkpoint" /\ ~last_call'.raised) =>
              /\ last_call'.id \notin DOMAIN ckdir
              /\ \A id \in DOMAIN ckdir :
                    id \in DOMAIN ckdir' /\ ckdir'[id] = ckdir[id]
        /\ last_call'.op \notin {"create_checkpoint", "cleanup_checkpoints"} =>
              ckdir' = ckdir ]_vars

(* C8: a checkpoint document that create_checkpoint wrote and returned    *)
(* the id of holds a snapshot of every version file and known config file *)
(* that existed: an unreadable file makes the call raise instead.         *)
C8_NoSilentlyMissingSnapshot ==
    (last_call.op = "create_checkpoint" /\ ~last_call.raised) =>
        \A p \in CapturedPaths : p \in DOMAIN ckdir[last_call.id].file_snapshots

(* C9: rollback_to_checkpoint with an id that has no document, or whose   *)
(* document does not parse, returns False and changes neither HEAD, the   *)
(* branch, a file nor the checkpoint directory.                           *)
C9_UnloadableCheckpointIsNoOp ==
    [][ ( /\ last_call'.op = "rollback_to_checkpoint"
          /\ \/ last_rollback'.id \notin DOMAIN ckdir
             \/ ~ckdir[last_rollback'.id].parses )
          => /\ ~last_call'.raised /\ ~last_call'.ret
             /\ files' = files
             /\ branch' = branch /\ tip' = tip /\ commits' = commits
             /\ ckdir' = ckdir ]_vars

(* C9 witness: the call named a document on disk that does not parse,     *)
(* while the file differs from every checkpoint that could restore it.    *)
C9_Witness ==
    /\ last_call.op = "rollback_to_checkpoint"
    /\ last_rollback.id \in DOMAIN ckdir
    /\ ~ckdir[last_rollback.id].parses
    /\ ~last_call.ret
    /\ Parseable(ckdir) /= {}

NewestTimestamp(dir) ==
    CHOOSE t \in {dir[id].timestamp : id \in Parseable(dir)} :
        \A id \in Parseable(dir) : dir[id].timestamp <= t

(* C10: rollback_last_operation rolls back to a checkpoint whose          *)
(* timestamp is the greatest among the documents on disk and returns that *)
(* rollback's result; with no checkpoint it returns False and changes     *)
(* neither the git state nor a file.                                      *)
C10_RollsBackToNewest ==
    /\ [](last_call.op = "rollback_last_operation" =>
            IF Parseable(ckdir) = {}
            THEN ~last_call.ret /\ last_rollback = NoRollback
            ELSE /\ last_rollback.id \in Parseable(ckdir)
                 /\ ckdir[last_rollback.id].timestamp = NewestTimestamp(ckdir)
                 /\ last_call.ret = last_rollback.result)
    /\ [][ (last_call'.op = "rollback_last_operation" /\ Parseable(ckdir) = {})
             => /\ files' = files
                /\ branch' = branch /\ tip' = tip /\ commits' = commits ]_vars

(* C10 witness: two checkpoints with different timestamps are on disk and *)
(* the call restored the newer one's snapshot over an edited file.        *)
C10_Witness ==
    /\ last_call.op = "rollback_last_operation"
    /\ last_call.ret
    /\ \E id \in Parseable(ckdir) :
          ckdir[id].timestamp < ckdir[last_rollback.id].timestamp

(* C11: list_checkpoints returns one summary per document that parses,    *)
(* newest timestamp first, and the listing stays the same, in the same    *)
(* order, as long as no create_checkpoint or cleanup_checkpoints runs.    *)
C11_ListingSortedAndStable ==
    /\ [](last_call.op = "list_checkpoints" =>
            LET l == list_checkpoints(ckdir)
            IN  /\ last_call.n = Len(l)
                /\ Len(l) = Cardinality({id \in DOMAIN ckdir : ckdir[id].parses})
                /\ Range(l) = {id \in DOMAIN ckdir : ckdir[id].parses}
                /\ \A i, j \in DOMAIN l :
                      i < j => ckdir[l[i]].timestamp >= ckdir[l[j]].timestamp)
    /\ [][ last_call'.op \notin {"create_checkpoint", "cleanup_checkpoints"}
             => list_checkpoints(ckdir') = list_checkpoints(ckdir) ]_vars

(* C11 witness: a listing of two checkpoints taken at different times.    *)
C11_Witness ==
    /\ last_call.op = "list_checkpoints"
    /\ last_call.n = 2
    /\ \E id \in DOMAIN ckdir : ckdir[id].timestamp < ckdir[last_call.id].timestamp

(* C12: for keep_count >= 0 and a listing of n checkpoints,               *)
(* cleanup_checkpoints deletes only among the n - keep_count oldest of    *)
(* the listing (all of them when no unlink fails, none when               *)
(* n <= keep_count), the keep_count newest stay on disk unchanged, and    *)
(* the returned count is the number of documents deleted.                 *)
C12_CleanupKeepsNewest ==
    [][ (last_call'.op = "cleanup_checkpoints" /\ last_call'.arg >= 0) =>
          LET l       == list_checkpoints(ckdir)
              k       == last_call'.arg
              oldest  == {l[i] : i \in (k + 1)..Len(l)}
              newest  == {l[i] : i \in {j \in 1..Len(l) : j <= k}}
              deleted == DOMAIN ckdir \ DOMAIN ckdir'
          IN  /\ deleted \subseteq oldest
              /\ last_call'.faults = 0 => deleted = oldest
              /\ newest \subseteq DOMAIN ckdir'
              /\ \A id \in DOMAIN ckdir' :
                    id \in DOMAIN ckdir /\ ckdir'[id] = ckdir[id]
              /\ last_call'.n = Cardinality(deleted) ]_vars

(* C12 witness: cleanup_checkpoints(1) deleted the older of two           *)
(* checkpoints and returned 1.                                            *)
C12_Witness ==
    /\ last_call.op = "cleanup_checkpoints"
    /\ last_call.arg = 1 /\ last_call.n = 1
    /\ Cardinality(Parseable(ckdir)) = 1

(* C13: a cleanup_checkpoints call that follows one with the same         *)
(* keep_count (whose unlinks all succeeded), for any integer keep_count,  *)
(* deletes nothing, returns 0 and leaves the directory as it was.         *)
C13_CleanupIdempotent ==
    [][ ( /\ last_call.op = "cleanup_checkpoints" /\ last_call.faults = 0
          /\ last_call'.op = "cleanup_checkpoints"
          /\ last_call'.arg = last_call.arg )
          => ckdir' = ckdir /\ last_call'.n = 0 ]_vars

-----------------------------------------------------------------------------
(* Properties of the version manager (checked under SpecVM) *)

(* MAJOR.MINOR.PATCH, three non-negative integers and nothing else *)
StrictSemver(v) == Len(v.n) = 3 /\ v.suf = ""

(* C15: from a version MAJOR.MINOR.PATCH a patch bump gives               *)
(* MAJOR.MINOR.(PATCH+1), a minor bump MAJOR.(MINOR+1).0 and a major bump *)
(* (MAJOR+1).0.0, the bumped component being greater than before, in      *)
(* bump_version and in the orchestrator's _calculate_next_version alike.  *)
C15_BumpRule ==
    ( /\ vm.op \in {"bump_version", "_calculate_next_version"}
      /\ ~vm.raised /\ StrictSemver(vm.base) ) =>
        LET b == vm.base.n
        IN  /\ vm.new.suf = ""
            /\ vm.bump_type = "patch" =>
                  vm.new.n = <<b[1], b[2], b[3] + 1>> /\ vm.new.n[3] > b[3]
            /\ vm.bump_type = "minor" =>
                  vm.new.n = <<b[1], b[2] + 1, 0>> /\ vm.new.n[2] > b[2]
            /\ vm.bump_type = "major" =>
                  vm.new.n = <<b[1] + 1, 0, 0>> /\ vm.new.n[1] > b[1]

(* C15 witness: a minor bump of a version whose minor component is 65535  *)
(* and whose major component is close to 2^31.                            *)
C15_Witness ==
    /\ vm.op = "bump_version" /\ vm.bump_type = "minor"
    /\ vm.base = SemVer(BigComponent, 65535, 255)
    /\ vm.new.n[2] = 65536

(* C16: bump_version takes as base the version of the first format, in    *)
(* schema order, whose file it could read and whose pattern matched, and  *)
(* writes the one new version to every such file: the returned mapping    *)
(* has exactly those paths, maps each to the new version, and each of     *)
(* those files holds the new version afterwards; no other file changes.   *)
C16_BumpFromFirstWritesAll ==
    [][ (vm'.op = "bump_version" /\ ~vm'.raised) =>
          LET found == {i \in DOMAIN version_formats :
                          /\ Readable(files, vm'.bad, version_formats[i].file_path)
                          /\ HasMatch(files[version_formats[i].file_path])}
              first == CHOOSE i \in found : \A j \in found : i <= j
          IN  /\ vm'.base = FirstMatch(files[version_formats[first].file_path]).v
              /\ DOMAIN vm'.ret = {version_formats[i].file_path : i \in found}
              /\ \A p \in DOMAIN vm'.ret :
                    /\ vm'.ret[p] = vm'.new
                    /\ HasMatch(files'[p])
                    /\ FirstMatch(files'[p]).v = vm'.new
              /\ \A p \in Paths \ DOMAIN vm'.ret : files'[p] = files[p] ]_vars

(* C16 witness: two files that held different versions were both bumped   *)
(* to the version computed from the first.                                *)
C16_Witness ==
    /\ vm.op = "bump_version" /\ vm.calls = 1
    /\ DOMAIN vm.ret = {CargoToml, PackageJson}
    /\ vm.base = SemVer(0, 0, 0)
    /\ FirstMatch(commits[1][PackageJson]).v = SemVer(0, 1, 0)
    /\ FirstMatch(files[PackageJson]).v = vm.new

(* C17: for a format without a replacement template, bump_version changes *)
(* only the version inside the first match: the match keeps its own       *)
(* spelling and everything before and after it is as it was, also when    *)
(* the pattern matches more than once.                                    *)
C17_OnlyCapturedGroupChanges ==
    [][ (vm'.op = "bump_version" /\ ~vm'.raised) =>
          \A p \in DOMAIN vm'.ret :
              ~FormatOf(p).replacement =>
                  LET first == Min(MatchIdx(files[p]))
                  IN  /\ Len(files'[p]) = Len(files[p])
                      /\ files'[p][first] = Ver(files[p][first].pre, vm'.new)
                      /\ \A i \in DOMAIN files[p] :
                            i /= first => files'[p][i] = files[p][i] ]_vars

(* C18: after sync_versions(v) has returned, get_current_versions gives v *)
(* for every configured file that could be read and written and held a    *)
(* MAJOR.MINOR.PATCH version matched by its pattern.                      *)
C18_SyncThenReadRoundTrip ==
    [][ (vm'.op = "sync_versions" /\ ~vm'.raised) =>
          \A p \in VersionPaths :
              ( /\ Readable(files, vm'.bad, p)
                /\ HasMatch(files[p])
                /\ StrictSemver(FirstMatch(files[p]).v) ) =>
                  /\ p \in DOMAIN get_current_versions(files', {})
                  /\ get_current_versions(files', {})[p] = vm'.target ]_vars

(* C18 witness: a version line not spelled as the template spells it was  *)
(* synced through the template.                                           *)
C18_Witness ==
    /\ vm.op = "sync_versions" /\ ~vm.raised /\ vm.calls = 1
    /\ version_formats[1].replacement
    /\ commits[1][CargoToml] = <<Ver("alt", SemVer(0, 0, 0))>>
    /\ files[CargoToml] = <<Ver("canon", vm.target)>>

(* C19: sync_versions with a target that is not MAJOR.MINOR.PATCH raises  *)
(* and leaves every file as it was.                                       *)
C19_InvalidTargetTouchesNothing ==
    [][ (vm'.op = "sync_versions" /\ ~StrictSemver(vm'.target)) =>
          vm'.raised /\ files' = files ]_vars

(* C20: get_current_versions returns a version string of any shape;       *)
(* bump_version, when the base it read is not MAJOR.MINOR.PATCH, writes   *)
(* no file and returns an empty mapping.                                  *)
C20_NonConformingBaseNotBumped ==
    /\ [](\A p \in VersionPaths :
            (Exists(files, p) /\ HasMatch(files[p])) =>
                /\ p \in DOMAIN get_current_versions(files, {})
                /\ get_current_versions(files, {})[p] = FirstMatch(files[p]).v)
    /\ [][ (vm'.op = "bump_version" /\ ~StrictSemver(vm'.base)) =>
             files' = files /\ vm'.ret = NoVersions ]_vars

-----------------------------------------------------------------------------
(* Git restoration *)

AllGitCommandsSucceeded(cmds) == \A i \in DOMAIN cmds : cmds[i][2]
Attempted(cmds, name)         == \E i \in DOMAIN cmds : cmds[i][1] = name

(* C24: when the branch at rollback time is not the checkpoint's, a       *)
(* checkout of the checkpoint's branch is attempted whether or not HEAD   *)
(* is at the checkpoint's commit (unless the reset before it failed), and *)
(* after a rollback in which every git command succeeded HEAD and the     *)
(* branch are the checkpoint's.                                           *)
C24_BranchAndHeadRestored ==
    [][ last_rollback'.loaded =>
          LET git_state == ckdir[last_rollback'.id].git_state
              cmds      == last_rollback'.cmds
          IN  /\ ( /\ branch /= git_state.branch
                   /\ ~Attempted(cmds, "checkout") ) =>
                     \E i \in DOMAIN cmds : ~cmds[i][2]
              /\ AllGitCommandsSucceeded(cmds) =>
                     /\ branch' = git_state.branch
                     /\ tip'[branch'] = git_state.commit_hash ]_vars

(* C25: when the reset succeeded and the checkout of the checkpoint's     *)
(* branch failed, the git phase reports success, the file and version     *)
(* phases have run, and the rollback returns True exactly when those two  *)
(* succeeded.                                                             *)
C25_FailedCheckoutIsOnlyAWarning ==
    ( /\ last_rollback.loaded
      /\ last_rollback.cmds = << <<"reset", TRUE>>, <<"checkout", FALSE>> >> ) =>
        /\ Len(last_rollback.phases) = 3
        /\ PhaseOk(1)
        /\ last_rollback.result <=> (PhaseOk(2) /\ PhaseOk(3))

-----------------------------------------------------------------------------
(* Version restoration *)

(* C26: after a rollback, every path of the checkpoint's version_state    *)
(* whose format is still configured, whose file exists and matches the    *)
(* pattern and whose read and write did not raise holds the checkpointed  *)
(* version, with a replacement template or without one.                   *)
C26_VersionSetBackToCheckpointed ==
    last_rollback.loaded =>
        LET version_state == ckdir[last_rollback.id].version_state
        IN  \A p \in DOMAIN version_state :
                ( /\ HasFormat(p)
                  /\ Readable(files, last_rollback.vbad, p)
                  /\ HasMatch(files[p]) ) =>
                    FirstMatch(files[p]).v = version_state[p]

-----------------------------------------------------------------------------
(* Restoration, path by path *)

(* what the version phase makes of content c of path p *)
AfterVersionPhase(version_state, vbad, p, c) ==
    IF p \in DOMAIN version_state /\ HasFormat(p) /\ p \notin vbad
    THEN RestoreVersion(p, c, version_state[p]) ELSE c

(* C27: in the file phase a write error on one path, and in the version   *)
(* phase a read or write error, a missing file or a missing format on one *)
(* path, marks the phase as failed; every other path of the phase is      *)
(* still restored: each snapshot whose write did not fail is in the file, *)
(* and each version file without a template that could be processed holds *)
(* the checkpointed version in every line the pattern matches.            *)
C27_RestorationIsPerPath ==
    last_rollback.loaded =>
        LET doc == ckdir[last_rollback.id]
            wbad == last_rollback.wbad
            vbad == last_rollback.vbad
        IN  /\ PhaseOk(2) <=> (DOMAIN doc.file_snapshots \cap wbad = {})
            /\ PhaseOk(3) <=>
                 \A p \in DOMAIN doc.version_state :
                     HasFormat(p) /\ Readable(files, vbad, p)
            /\ \A p \in DOMAIN doc.file_snapshots \ wbad :
                  files[p] = AfterVersionPhase(doc.version_state, vbad, p,
                                               doc.file_snapshots[p])
            /\ \A p \in DOMAIN doc.version_state :
                  ( /\ HasFormat(p) /\ Readable(files, vbad, p)
                    /\ ~FormatOf(p).replacement ) =>
                      \A i \in MatchIdx(files[p]) :
                          files[p][i].v = doc.version_state[p]

(* C27 witness: the file phase failed on one version file and restored    *)
(* the other; the version phase failed on the path whose format is gone   *)
(* and set the file the file phase had left alone back to its version.    *)
C27_Witness ==
    /\ last_rollback.loaded
    /\ ~PhaseOk(2) /\ ~PhaseOk(3)
    /\ LET doc == ckdir[last_rollback.id]
       IN  /\ DOMAIN doc.version_state = {CargoToml, PackageJson}
           /\ ~HasFormat(CargoToml)
           /\ last_rollback.wbad = {PackageJson}
           /\ commits[Len(commits)][CargoToml] /= doc.file_snapshots[CargoToml]
           /\ files[CargoToml] = doc.file_snapshots[CargoToml]
           /\ files[PackageJson] /= doc.file_snapshots[PackageJson]
           /\ HasMatch(files[PackageJson])
           /\ FirstMatch(files[PackageJson]).v = doc.version_state[PackageJson]

(* C29: a rollback that finds HEAD at the checkpoint's commit runs no git *)
(* reset and no checkout and leaves every file the checkpoint has no      *)
(* snapshot of as it was.                                                 *)
C29_UnchangedHeadLeavesOtherFiles ==
    [][ ( /\ last_rollback'.loaded
          /\ ckdir[last_rollback'.id].git_state.commit_hash = HeadCommit ) =>
            /\ last_rollback'.cmds = <<>>
            /\ \A p \in Paths \ DOMAIN ckdir[last_rollback'.id].file_snapshots :
                  files'[p] = files[p] ]_vars

(* C29 witness: a rollback returned True and a file edited after the     *)
(* checkpoint, of which the checkpoint has no snapshot, keeps the edit.   *)
C29_Witness ==
    /\ last_rollback.loaded /\ last_rollback.result
    /\ last_rollback.cmds = <<>>
    /\ Len(commits) = 1
    /\ PackageJson \notin DOMAIN ckdir[last_rollback.id].file_snapshots
    /\ commits[1][PackageJson] = <<Ver("canon", SemVer(1, 0, 0))>>
    /\ files[PackageJson] = <<Ver("alt", SemVer(2, 0, 0))>>

(* C30: a rollback that runs no git command removes no file, and a file   *)
(* that did not exist at the checkpoint and is in no commit is left with  *)
(* the content it had before the rollback.                                *)
C30_RollbackDeletesNothing ==
    [][ last_rollback'.loaded =>
          LET doc == ckdir[last_rollback'.id]
          IN  /\ last_rollback'.cmds = <<>> =>
                    \A p \in Paths : Exists(files, p) => Exists(files', p)
              /\ \A p \in Paths :
                    ( /\ Exists(files, p)
                      /\ p \notin DOMAIN doc.file_snapshots
                      /\ \A c \in DOMAIN commits : ~Exists(commits[c], p) ) =>
                        files'[p] = files[p] ]_vars

(* C30 witness: a version file absent at the checkpoint and created       *)
(* afterwards is still there after a rollback that returned True.         *)
C30_Witness ==
    /\ last_rollback.loaded /\ last_rollback.result
    /\ HasFormat(PackageJson)
    /\ PackageJson \notin DOMAIN ckdir[last_rollback.id].file_snapshots
    /\ \A c \in DOMAIN commits : ~Exists(commits[c], PackageJson)
    /\ files[PackageJson] = <<Ver("alt", SemVer(2, 0, 0))>>

-----------------------------------------------------------------------------
(* Partial results of the version manager *)

(* the configured files one call could read, match and write *)
Updatable(fs, bad) ==
    {p \in VersionPaths : Readable(fs, bad, p) /\ HasMatch(fs[p])}

(* C21: bump_version raises only when the project has no version to read  *)
(* even without I/O errors, never because a file failed; when it returns,  *)
(* its mapping holds exactly the files it could read, match and write,     *)
(* each of them now holds the mapped version, and every other file is      *)
(* untouched.                                                              *)
C21_BumpFailsPerFile ==
    [][ vm'.op = "bump_version" =>
          /\ vm'.raised => DOMAIN get_current_versions(files, {}) = {}
          /\ ~vm'.raised =>
                /\ DOMAIN vm'.ret = Updatable(files, vm'.bad)
                /\ \A p \in DOMAIN vm'.ret :
                      /\ HasMatch(files'[p])
                      /\ FirstMatch(files'[p]).v = vm'.ret[p]
                /\ \A p \in Paths \ DOMAIN vm'.ret : files'[p] = files[p] ]_vars

(* C28: every path sync_versions(v) returns had a line its pattern        *)
(* matched and holds v afterwards; a configured file that exists and does *)
(* not match is not in the mapping and keeps its content, with a          *)
(* replacement template and without one.                                  *)
C28_SyncReportsOnlyMatchedFiles ==
    [][ (vm'.op = "sync_versions" /\ ~vm'.raised) =>
          /\ \A p \in DOMAIN vm'.ret :
                /\ HasMatch(files[p])
                /\ HasMatch(files'[p])
                /\ FirstMatch(files'[p]).v = vm'.target
          /\ \A p \in VersionPaths :
                (Exists(files, p) /\ ~HasMatch(files[p])) =>
                    p \notin DOMAIN vm'.ret /\ files'[p] = files[p] ]_vars

-----------------------------------------------------------------------------
(* Schema validation *)

(* C22: the formats of a loaded schema all have a pattern that compiles   *)
(* and has a capturing group (any other pattern made the load raise), and *)
(* get_current_versions never fails on a file because its pattern lacks   *)
(* the group.                                                             *)
C22_LoadedPatternsHaveAGroup ==
    /\ \A i \in DOMAIN version_formats : version_formats[i].pattern = "group"
    /\ vm.op = "get_current_versions" => GroupErrors(files) = {}

-----------------------------------------------------------------------------
(* The commit workflow *)

Called(name)  == \E i \in DOMAIN wf.calls : wf.calls[i] = name
HasRun(step)  == \E i \in DOMAIN wf.steps : wf.steps[i] = step
NothingCommitted == ~Called("commit") /\ ~Called("bump_version") /\ ~Called("push")

(* C23: git commit is called only after step 2 found staged files and     *)
(* every pre-flight check of step 4 succeeded; a workflow that found no   *)
(* staged file, or had a pre-flight check fail, returns without raising,  *)
(* with success False and the message naming the cause, and has made no   *)
(* commit, version bump or push.                                          *)
C23_CommitOnlyAfterChecks ==
    /\ Called("commit") =>
          /\ HasRun("status") /\ wf.staged_found > 0
          /\ HasRun("preflight") /\ \A i \in DOMAIN wf.checks : wf.checks[i]
    /\ ~wf.raised
    /\ (HasRun("status") /\ wf.staged_found = 0) =>
          /\ wf.step = "returned" /\ ~wf.success
          /\ wf.message = "No staged changes to commit"
          /\ NothingCommitted
    /\ (\E i \in DOMAIN wf.checks : ~wf.checks[i]) =>
          /\ wf.step = "returned" /\ ~wf.success
          /\ wf.message = "Pre-flight checks failed"
          /\ NothingCommitted

(* C23 witness: the tree was staged, auto-fixes were applied and staged,  *)
(* one of two pre-flight checks failed, and the workflow returned.        *)
C23_Witness ==
    /\ wf.step = "returned"
    /\ wf.calls = <<"stage_all", "stage_all">>
    /\ wf.staged_found > 0
    /\ wf.checks = <<TRUE, FALSE>>
    /\ wf.message = "Pre-flight checks failed"

====
